---- MODULE Spec2Model ----
(***************************************************************************)
(* Model of get_ghi_pvout_pvlib.py: the per-site pipeline of main()        *)
(* (fetch_pvgis_data, load_sunny_portal_data,                              *)
(* calculate_performance_ratio, save_results,                              *)
(* create_monthly_comparison_chart), and of the actuals file that          *)
(* correct_chorio_specific_yield.py writes.                                *)
(*                                                                         *)
(* Numbers.  Every energy value (kWh/m2, kWh/kWp) is an integer count of   *)
(* hundredths, so 106.70 is 10670.  A mean is kept exact as the pair       *)
(* [num, den] (sum and count).  A Performance_Ratio is an integer count of *)
(* ten-thousandths (the result of round(pr, 4)), so 1.05 is 10500.         *)
(* Python's None is the record None and any other value v is Some(v); the   *)
(* float NaN is the record NaN and a number x read from text is Num(x).    *)
(*                                                                         *)
(* Text.  A cell of the CSV file is a sequence of one-character strings.   *)
(* Greek labels are written in Latin letters: "Etos" is the year label,    *)
(* "Ianouarios" ... the full month names and "Ian" ... the abbreviations.  *)
(***************************************************************************)
EXTENDS Integers, Sequences, FiniteSets, TLC

VARIABLES
    site,                 \* index in sites of the site main() is processing
    pc,                   \* main()'s position: the call it makes next
    hourly_columns,       \* columns of the hourly data of fetch_pvgis_data
    poa_df,               \* monthly POA records returned by fetch_pvgis_data
    raw,                  \* content of the site's actuals file as last read
    sunny_portal_data,    \* result of load_sunny_portal_data
    pvout_fetch,          \* outcome of the PVOUT request
    pvgis_pvout_monthly,  \* month -> simulated PVOUT used by the record loop
    pr_df,                \* records returned by calculate_performance_ratio
    summary_stats,        \* summary computed by save_results
    completed,            \* sites whose pipeline ran to its last line
    skipped,              \* sites main() skipped after a failed fetch
    error                 \* stage whose exception left main(), or "none"

vars == <<site, pc, hourly_columns, poa_df, raw, sunny_portal_data,
          pvout_fetch, pvgis_pvout_monthly, pr_df, summary_stats,
          completed, skipped, error>>

None == [none |-> TRUE]
Some(v) == [none |-> FALSE, val |-> v]

NaN == [nan |-> TRUE]
Num(x) == [nan |-> FALSE, v |-> x]

-----------------------------------------------------------------------------
(* Exact arithmetic on means.                                              *)

Rat(n, d) == [num |-> n, den |-> d]

Zero == Rat(0, 1)

Abs(x) == IF x < 0 THEN -x ELSE x

RECURSIVE SumSeq(_)
SumSeq(s) == IF s = <<>> THEN 0 ELSE s[1] + SumSeq(Tail(s))

\* pandas Series.mean(): sum over count.
Mean(s) == Rat(SumSeq(s), Len(s))

\* dict.get(key, 0)
Get(d, k) == IF k \in DOMAIN d THEN d[k] ELSE Zero

-----------------------------------------------------------------------------
(* Text of a cell and pd.to_numeric(..., errors='coerce').                 *)

DigitValue ==
    [c \in {"0", "1", "2", "3", "4", "5", "6", "7", "8", "9"} |->
        CASE c = "0" -> 0 [] c = "1" -> 1 [] c = "2" -> 2 [] c = "3" -> 3
          [] c = "4" -> 4 [] c = "5" -> 5 [] c = "6" -> 6 [] c = "7" -> 7
          [] c = "8" -> 8 [] c = "9" -> 9]

AllDigits(s) == \A i \in 1..Len(s) : s[i] \in DOMAIN DigitValue

RECURSIVE DigitsValue(_)
DigitsValue(s) ==
    IF s = <<>> THEN 0
    ELSE 10 * DigitsValue(SubSeq(s, 1, Len(s) - 1)) + DigitValue[s[Len(s)]]

\* The first two decimals of a fraction, in hundredths; the model's cells
\* carry no more (as the repository's data).
Hundredths(fp) ==
    IF Len(fp) = 0 THEN 0
    ELSE IF Len(fp) = 1 THEN 10 * DigitValue[fp[1]]
    ELSE 10 * DigitValue[fp[1]] + DigitValue[fp[2]]

\* An unsigned decimal: digits, at most one ".", at least one digit.
UnsignedNumber(s) ==
    LET dots == {i \in 1..Len(s) : s[i] = "."}
        d == IF dots = {} THEN Len(s) + 1 ELSE CHOOSE i \in dots : TRUE
        ip == SubSeq(s, 1, d - 1)
        fp == SubSeq(s, d + 1, Len(s))
    IN  IF Cardinality(dots) > 1 THEN NaN
        ELSE IF ~AllDigits(ip) \/ ~AllDigits(fp) THEN NaN
        ELSE IF ip = <<>> /\ fp = <<>> THEN NaN
        ELSE Num(100 * DigitsValue(ip) + Hundredths(fp))

\* pd.to_numeric(x, errors='coerce') of one cell: the number in hundredths,
\* or NaN for an empty cell or text that is no number.
to_numeric(s) ==
    IF s = <<>> THEN NaN
    ELSE IF s[1] = "-"
         THEN LET u == UnsignedNumber(Tail(s))
              IN  IF u = NaN THEN NaN ELSE Num(-u.v)
         ELSE UnsignedNumber(s)

\* Series.astype(str): an empty cell was read as NaN and prints as 'nan'.
astype_str(s) == IF s = <<>> THEN <<"n", "a", "n">> ELSE s

\* Series.str.replace(',', '.')
str_replace_comma(s) == [i \in 1..Len(s) |-> IF s[i] = "," THEN "." ELSE s[i]]

fillna0(x) == IF x = NaN THEN 0 ELSE x.v

\* Lines 219-222: the yield value of one cell.
SpecificYield(cell) == fillna0(to_numeric(str_replace_comma(astype_str(cell))))

-----------------------------------------------------------------------------
(* load_sunny_portal_data: the wide table and its normalisation.           *)

\* What the site's file path holds: nothing, bytes read_csv cannot read, or a
\* table with its header line (columns) and its data lines (rows of cells).
NoFile == [kind |-> "absent"]
Unreadable == [kind |-> "unreadable"]
Table(columns, rows) == [kind |-> "table", columns |-> columns, rows |-> rows]

YearLabels == {"Year", "year", "Etos"}

month_name_to_num ==
    [l \in {"January", "February", "March", "April", "May", "June", "July",
            "August", "September", "October", "November", "December",
            "Ianouarios", "Fevrouarios", "Martios", "Aprilios", "Maios",
            "Iounios", "Ioulios", "Avgoustos", "Septemvrios", "Oktovrios",
            "Noemvrios", "Dekemvrios",
            "Ian", "Fev", "Mar", "Apr", "Mai", "Ioun", "Ioul", "Avg", "Sep",
            "Okt", "Noe", "Dek"} |->
        CASE l \in {"January", "Ianouarios", "Ian"} -> 1
          [] l \in {"February", "Fevrouarios", "Fev"} -> 2
          [] l \in {"March", "Martios", "Mar"} -> 3
          [] l \in {"April", "Aprilios", "Apr"} -> 4
          [] l \in {"May", "Maios", "Mai"} -> 5
          [] l \in {"June", "Iounios", "Ioun"} -> 6
          [] l \in {"July", "Ioulios", "Ioul"} -> 7
          [] l \in {"August", "Avgoustos", "Avg"} -> 8
          [] l \in {"September", "Septemvrios", "Sep"} -> 9
          [] l \in {"October", "Oktovrios", "Okt"} -> 10
          [] l \in {"November", "Noemvrios", "Noe"} -> 11
          [] l \in {"December", "Dekemvrios", "Dek"} -> 12]

\* Lines 190-191: the first column is retitled unless it carries a year label.
RenameFirstColumn(columns) ==
    IF columns[1] \notin YearLabels THEN [columns EXCEPT ![1] = "Year"]
    ELSE columns

\* The table read without dropping its last rows.
KeepSummaryRows(rows) == rows

\* Line 195, df.iloc[:-4]: all rows but the last four.
SummaryRows == 4

DropSummaryRows(rows) ==
    IF Len(rows) > SummaryRows THEN SubSeq(rows, 1, Len(rows) - SummaryRows)
    ELSE <<>>

\* Lines 201-205: the indexes of the columns that are melted.
ValueVars(columns) ==
    IF \E i \in 1..Len(columns) : columns[i] = "Total"
    THEN {i \in 1..Len(columns) : columns[i] \notin {"Year", "Total"}}
    ELSE {i \in 1..Len(columns) : columns[i] # "Year"}

\* df.melt raises KeyError when there is no column 'Year' to keep as id.
MeltRaises(columns) == \A i \in 1..Len(columns) : columns[i] # "Year"

YearIndex(columns) ==
    CHOOSE i \in 1..Len(columns) :
        columns[i] = "Year" /\ \A j \in 1..(i - 1) : columns[j] # "Year"

RECURSIVE MeltColumns(_, _, _, _)
MeltColumns(columns, rows, j, yi) ==
    IF j > Len(columns) THEN <<>>
    ELSE (IF j \in ValueVars(columns)
          THEN [i \in 1..Len(rows) |->
                   [Year |-> rows[i][yi], Month |-> columns[j],
                    Value |-> rows[i][j]]]
          ELSE <<>>)
         \o MeltColumns(columns, rows, j + 1, yi)

\* Lines 207-210: one record per value column and row, column by column.
Melt(columns, rows) == MeltColumns(columns, rows, 1, YearIndex(columns))

\* Lines 214-215: the year as a number; records without one are dropped.
YearToNumeric(melted) ==
    SelectSeq([i \in 1..Len(melted) |->
                  [melted[i] EXCEPT !.Year = to_numeric(melted[i].Year)]],
              LAMBDA r : r.Year # NaN)

\* Lines 219-222: the value as a number, 0 where it is none.
ValueToNumeric(melted) ==
    [i \in 1..Len(melted) |->
        [melted[i] EXCEPT !.Value = SpecificYield(melted[i].Value)]]

\* Lines 234-238: the month number; records with an unmapped label are dropped.
MapMonths(melted) ==
    LET known == SelectSeq(melted, LAMBDA r : r.Month \in DOMAIN month_name_to_num)
    IN  [i \in 1..Len(known) |->
            [Year |-> known[i].Year, Month |-> known[i].Month,
             Value |-> known[i].Value,
             Month_Num |-> month_name_to_num[known[i].Month]]]

\* Line 242, astype(int): the year's integer part (years are not negative).
YearAsInt(melted) ==
    [i \in 1..Len(melted) |->
        [melted[i] EXCEPT !.Year = melted[i].Year.v \div 100]]

DateBefore(a, b) ==
    a.Year < b.Year \/ (a.Year = b.Year /\ a.Month_Num < b.Month_Num)

\* Lines 247-251: the records in ascending (year, month) order, records of
\* one date in the order they had.
SortByDate(s) ==
    LET place == [i \in 1..Len(s) |->
                     1 + Cardinality({j \in 1..Len(s) :
                             \/ DateBefore(s[j], s[i])
                             \/ (j < i /\ ~DateBefore(s[i], s[j]))})]
    IN  [p \in 1..Len(s) |-> s[CHOOSE i \in 1..Len(s) : place[i] = p]]

\* Lines 198-243: the records of the table with a year and a month number.
MeltedByMonth(table) ==
    LET columns == RenameFirstColumn(table.columns)
        rows == DropSummaryRows(table.rows)
    IN  YearAsInt(MapMonths(ValueToNumeric(YearToNumeric(Melt(columns, rows)))))

\* Line 247, pd.to_datetime of 'year-month-01': an exception for a date
\* outside the range of Timestamp (1677-09-21 to 2262-04-11).
to_datetime_raises(melted) ==
    \E i \in 1..Len(melted) :
        LET y == melted[i].Year
            m == melted[i].Month_Num
        IN  \/ y < 1677 \/ (y = 1677 /\ m < 10)
            \/ y > 2262 \/ (y = 2262 /\ m > 4)

\* Lines 198-251: the long-form series built from the table.
df_melted(table) == SortByDate(MeltedByMonth(table))

\* Line 255: groupby(month).mean() as a dict month -> mean.
MonthlyAverage(melted) ==
    LET months == {melted[i].Month_Num : i \in 1..Len(melted)}
        ofMonth(m) == SelectSeq(melted, LAMBDA r : r.Month_Num = m)
    IN  [m \in months |->
            LET rs == ofMonth(m)
            IN  Mean([i \in 1..Len(rs) |-> rs[i].Value])]

\* load_sunny_portal_data: None when the file is absent (line 181) or when an
\* exception is caught (line 264), else the monthly average dict.
load_sunny_portal_data(file) ==
    IF file.kind = "absent" THEN None
    ELSE IF file.kind = "unreadable" THEN None
    ELSE IF MeltRaises(RenameFirstColumn(file.columns)) THEN None
    ELSE LET melted == MeltedByMonth(file)
         IN  IF to_datetime_raises(melted) THEN None
             ELSE Some(MonthlyAverage(SortByDate(melted)))

-----------------------------------------------------------------------------
(* fetch_pvgis_data.                                                       *)

sites == <<"Agioi Deka", "Moroni", "Chorio", "Dexameni", "Karavas",
           "PLASTIKA KRITIS VIPE">>

POAComponents == {"poa_direct", "poa_sky_diffuse", "poa_ground_diffuse"}

\* Lines 96-107: the columns after the derivation of GHI, or None when the
\* ValueError of line 107 is raised.
DeriveGHI(columns) ==
    IF "ghi" \notin columns
    THEN IF POAComponents \subseteq columns
         THEN Some(columns \cup {"GHI", "DNI", "DHI"})
         ELSE None
    ELSE Some(columns)

\* Lines 110-153: the columns 'GHI', 'DNI' and 'DHI' are read by name; a
\* missing one raises KeyError.
ProcessingRaises(columns) ==
    LET derived == DeriveGHI(columns)
    IN  IF derived = None THEN TRUE
        ELSE ~({"GHI", "DNI", "DHI"} \subseteq derived.val)

-----------------------------------------------------------------------------
(* calculate_performance_ratio.                                            *)

\* Lines 316-319: the placeholder PVOUT values.
PlaceholderPVOUT ==
    [m \in 1..12 |->
        Rat(CASE m = 1 -> 9437 [] m = 2 -> 10962 [] m = 3 -> 13789
              [] m = 4 -> 15678 [] m = 5 -> 17845 [] m = 6 -> 22849
              [] m = 7 -> 22467 [] m = 8 -> 20134 [] m = 9 -> 17823
              [] m = 10 -> 15689 [] m = 11 -> 13456 [] m = 12 -> 12143, 1)]

\* groupby(month)[column].mean().to_dict() of monthly records (lines 308, 325).
MonthlyMean(records, column) ==
    LET months == {records[i].Month : i \in 1..Len(records)}
    IN  [m \in months |->
            LET rs == SelectSeq(records, LAMBDA r : r.Month = m)
            IN  Mean([i \in 1..Len(rs) |-> rs[i][column]])]

\* round(x, 4) of the quotient num / den (den > 0), in ten-thousandths: the
\* nearest one, the even one of two equally near.
Round4(num, den) ==
    LET n == 10000 * num
        q == n \div den
        r == n % den
    IN  IF 2 * r < den THEN q
        ELSE IF 2 * r > den THEN q + 1
        ELSE IF q % 2 = 0 THEN q ELSE q + 1

\* The ratio taken the other way round, simulated over actual.
PerformanceRatioInverted(real_pvout_value, pvout_value) ==
    IF pvout_value.num > 0 /\ real_pvout_value.num > 0
    THEN Round4(pvout_value.num * real_pvout_value.den,
                pvout_value.den * real_pvout_value.num)
    ELSE 0

\* The ratio with the simulated value floored at 0.01 instead of guarded.
PerformanceRatioFloored(real_pvout_value, pvout_value) ==
    IF pvout_value.num > 0
    THEN Round4(real_pvout_value.num * pvout_value.den,
                real_pvout_value.den * pvout_value.num)
    ELSE Round4(real_pvout_value.num, real_pvout_value.den)

\* Line 338: real_pvout_value / pvout_value if pvout_value > 0 else 0, and
\* line 346: round(pr, 4).
PerformanceRatio(real_pvout_value, pvout_value) ==
    IF pvout_value.num > 0
    THEN Round4(real_pvout_value.num * pvout_value.den,
                real_pvout_value.den * pvout_value.num)
    ELSE 0

\* Lines 328-347: the record of one month.
PerformanceRecord(month_num, monthly_avg_poa, pvout, sunny) ==
    [Year |-> "Monthly_Average",
     Month |-> month_num,
     POA_kWh_m2 |-> Get(monthly_avg_poa, month_num),
     PVOUT_kWh_kWp |-> Get(pvout, month_num),
     Real_kWh_kWp |-> Get(sunny, month_num),
     Performance_Ratio |->
         PerformanceRatio(Get(sunny, month_num), Get(pvout, month_num))]

\* The records of the months the simulated profile holds only.
PerformanceRecordsOfSimulated(poa, pvout, sunny) ==
    LET monthly_avg_poa == MonthlyMean(poa, "POA_kWh_m2")
        months == SelectSeq([m \in 1..12 |-> m], LAMBDA m : m \in DOMAIN pvout)
    IN  [i \in 1..Len(months) |->
            PerformanceRecord(months[i], monthly_avg_poa, pvout, sunny)]

\* Lines 321-349: the records of range(1, 13), in that order.
PerformanceRecords(poa, pvout, sunny) ==
    LET monthly_avg_poa == MonthlyMean(poa, "POA_kWh_m2")
    IN  [month_num \in 1..12 |->
            PerformanceRecord(month_num, monthly_avg_poa, pvout, sunny)]

-----------------------------------------------------------------------------
(* save_results: the summary statistics of lines 369-377.                  *)

RECURSIVE GCD(_, _)
GCD(a, b) == IF b = 0 THEN a ELSE GCD(b, a % b)

RatAdd(a, b) ==
    LET n == a.num * b.den + b.num * a.den
        d == a.den * b.den
        g == GCD(Abs(n), d)
    IN  Rat(n \div g, d \div g)

RECURSIVE RatSum(_)
RatSum(s) == IF s = <<>> THEN Zero ELSE RatAdd(s[1], RatSum(Tail(s)))

\* groupby('Year')[column].sum().mean(): the total over the number of years.
AnnualAverage(records, values) ==
    LET years == {records[i].Year : i \in 1..Len(records)}
        total == RatSum(values)
    IN  IF years = {} THEN NaN
        ELSE Rat(total.num, total.den * Cardinality(years))

SeriesMean(xs) == IF xs = <<>> THEN NaN ELSE Mean(xs)

SeriesMin(xs) ==
    IF xs = <<>> THEN NaN
    ELSE Num(CHOOSE x \in {xs[i] : i \in 1..Len(xs)} :
                 \A i \in 1..Len(xs) : x <= xs[i])

SeriesMax(xs) ==
    IF xs = <<>> THEN NaN
    ELSE Num(CHOOSE x \in {xs[i] : i \in 1..Len(xs)} :
                 \A i \in 1..Len(xs) : x >= xs[i])

\* The population standard deviation (ddof = 0): 0 for a single value.
SeriesStdPopulation(xs) ==
    IF Len(xs) < 1 THEN NaN
    ELSE IF \A i \in 1..Len(xs) : xs[i] = xs[1] THEN Num(0)
    ELSE [nan |-> FALSE, positive |-> TRUE]

\* Series.std() is the sample standard deviation (ddof = 1): NaN for fewer
\* than two values.  Of a defined deviation the model keeps whether it is 0
\* (all values equal) or positive.
SeriesStd(xs) ==
    IF Len(xs) < 2 THEN NaN
    ELSE IF \A i \in 1..Len(xs) : xs[i] = xs[1] THEN Num(0)
    ELSE [nan |-> FALSE, positive |-> TRUE]

SummaryStats(poa, pr) ==
    LET ratios == [i \in 1..Len(pr) |-> pr[i].Performance_Ratio]
    IN  [Annual_Average_POA_kWh_m2 |->
             AnnualAverage(poa, [i \in 1..Len(poa) |->
                                     Rat(poa[i].POA_kWh_m2, 1)]),
         Annual_Average_PVOUT_kWh_kWp |->
             AnnualAverage(pr, [i \in 1..Len(pr) |-> pr[i].PVOUT_kWh_kWp]),
         Average_Performance_Ratio |-> SeriesMean(ratios),
         Min_Monthly_PR |-> SeriesMin(ratios),
         Max_Monthly_PR |-> SeriesMax(ratios),
         PR_Standard_Deviation |-> SeriesStd(ratios)]

-----------------------------------------------------------------------------
(* What the environment can hand to the program: the hourly data of the    *)
(* two PVGIS requests and the content of the actuals file.                 *)

AllMonths == [m \in 1..12 |-> m]

\* The months a monthly series may cover.
MonthChoices == {AllMonths, <<>>, <<3>>, <<1, 12>>, <<2, 4, 6, 8, 10, 12>>}

\* Lines 157-163: poa_monthly, one record per year and month of the data.
PoaSeries(years, months) ==
    [i \in 1..(Len(years) * Len(months)) |->
        LET y == years[((i - 1) \div Len(months)) + 1]
            m == months[((i - 1) % Len(months)) + 1]
        IN  [Year |-> y, Month |-> m,
             POA_kWh_m2 |-> 12000 + 700 * m + 30 * (y - 2012)]]

PoaSet == {PoaSeries(<<2012, 2013>>, months) : months \in MonthChoices}

\* Line 305: the monthly PVOUT totals, one per year and month of the data.
PvoutSeries(years, months, march) ==
    [i \in 1..(Len(years) * Len(months)) |->
        LET y == years[((i - 1) \div Len(months)) + 1]
            m == months[((i - 1) % Len(months)) + 1]
        IN  [Year |-> y, Month |-> m,
             P |-> IF m = 3 THEN march ELSE 9000 + 500 * m + 100 * (y - 2012)]]

PvoutSet ==
    {PvoutSeries(<<2012, 2013>>, months, 15000) : months \in MonthChoices}
        \cup {PvoutSeries(<<2012>>, AllMonths, 0)}

\* The columns get_pvgis_hourly may return (line 75).
HourlyColumnSets == SUBSET ({"ghi"} \cup POAComponents)

\* Cells and rows of the repository's actuals files (the rows written by
\* correct_chorio_specific_yield.py, cut to two months).
EmptyCell == <<>>

MeanValueRow ==
    <<<<"M", "e", "a", "n", " ", "v", "a", "l", "u", "e">>,
      <<"8", "2", ",", "8", "1">>, <<"1", "3", "2", ",", "9", "3">>,
      <<"1", "6", "1", "1", ",", "7", "0">>>>

YearPortionRow ==
    <<<<"Y", "e", "a", "r", " ", "p", "o", "r", "t", "i", "o", "n">>,
      <<"5", ".", "1", "4", "%">>, <<"8", ".", "2", "5", "%">>,
      <<"1", "0", "0", ".", "0", "0", "%">>>>

YieldExpectationsRow ==
    <<<<"Y", "i", "e", "l", "d", " ", "e", "x", "p", ".", " ", "*">>,
      <<"1", "0", "8", ".", "1", "5">>, <<"1", "5", "7", ".", "5", "0">>,
      <<"1", "7", "5", "0", ".", "0", "0">>>>

LastRow ==
    <<<<"1", "9", "8", "2", "3", ".", "8", "1">>, EmptyCell, EmptyCell,
      <<"1", "9", "8", "2", "3", ".", "8", "1">>>>

SummaryFooter == <<MeanValueRow, YearPortionRow, YieldExpectationsRow, LastRow>>

Row2010 ==
    <<<<"2", "0", "1", "0">>, EmptyCell, <<"1", "5", "7", ",", "5", "0">>,
      <<"1", "5", "7", ".", "5", "0">>>>

Row2011 ==
    <<<<"2", "0", "1", "1">>, <<"1", "0", "6", ",", "7", "0">>,
      <<"1", "5", "7", ".", "5", "0">>, <<"2", "6", "4", ".", "2", "0">>>>

Row2011Again ==
    <<<<"2", "0", "1", "1">>, <<"5", "3", ",", "2", "8">>,
      <<"1", ",", "0", "0">>, <<"5", "4", ".", "2", "8">>>>

Row2012 ==
    <<<<"2", "0", "1", "2">>, <<"-", "5", ",", "3", "0">>,
      <<"1", "2", ".", "3", "0">>, <<"x">>>>

\* A row cut to the width of the header.
Cut(row, columns) == SubSeq(row, 1, Len(columns))

RowsFor(rows, columns) == [i \in 1..Len(rows) |-> Cut(rows[i], columns)]

TableOf(columns, rows) == Table(columns, RowsFor(rows, columns))

\* The files main() meets in the runs of the pipeline.
PipelineFiles ==
    {NoFile, Unreadable,
     TableOf(<<"Unnamed: 0", "January", "March", "Total">>,
             <<Row2010, Row2011>> \o SummaryFooter),
     TableOf(<<"Year", "January", "March">>, <<Row2012>> \o SummaryFooter),
     TableOf(<<"Etos", "Ian", "Mar">>, <<Row2011>> \o SummaryFooter),
     TableOf(<<"Unnamed: 0", "January", "March">>,
             <<Row2011, MeanValueRow, LastRow>>)}

-----------------------------------------------------------------------------
(* correct_chorio_specific_yield.py: the file it writes.                   *)

\* Lines 4-19: the rows of the DataFrame as to_csv writes their cells (a
\* float by its shortest text, an empty string as an empty cell).
chorio_data ==
    <<
     <<<<"2", "0", "1", "0">>, EmptyCell, EmptyCell, EmptyCell, EmptyCell,
       <<"1", "4", "5", ".", "3">>, <<"1", "7", "1", ".", "3", "6">>,
       <<"1", "9", "0", ".", "3", "8">>, <<"1", "8", "7", ".", "0", "9">>,
       <<"1", "6", "1", ".", "4", "2">>, <<"1", "3", "2", ".", "3", "6">>,
       <<"1", "1", "3", ".", "4", "9">>, <<"9", "0", ".", "0", "2">>,
       <<"1", "1", "9", "1", ".", "4", "2">>>>,
     <<<<"2", "0", "1", "1">>, <<"1", "0", "6", ".", "7">>,
       <<"1", "0", "6", ".", "4", "2">>, <<"1", "3", "1", ".", "1", "9">>,
       <<"1", "5", "4", ".", "5", "4">>, <<"1", "6", "6", ".", "3", "2">>,
       <<"1", "7", "6", ".", "2">>, <<"1", "9", "2", ".", "5", "1">>,
       <<"1", "8", "7", ".", "4", "1">>, <<"1", "4", "6", ".", "1", "7">>,
       <<"1", "5", "7", ".", "9", "4">>, <<"1", "1", "6", ".", "4", "1">>,
       <<"1", "0", "5", ".", "1", "1">>, <<"1", "7", "4", "6", ".", "9", "2">>>>,
     <<<<"2", "0", "1", "2">>, <<"5", "3", ".", "2", "8">>,
       <<"1", "3", "1", ".", "9", "7">>, <<"1", "5", "6", ".", "1">>,
       <<"1", "6", "8", ".", "8", "5">>, <<"1", "7", "0", ".", "0", "2">>,
       <<"1", "4", "6", ".", "2", "7">>, <<"2", "2", "8", ".", "4", "9">>,
       <<"1", "9", "0", ".", "4", "8">>, <<"1", "3", "2", ".", "8">>,
       EmptyCell, EmptyCell, EmptyCell, <<"1", "4", "6", "2", ".", "1", "7">>>>,
     <<<<"2", "0", "1", "3">>, <<"9", "0", ".", "4", "3">>,
       <<"1", "1", "4", ".", "7", "6">>, <<"1", "4", "9", ".", "6", "8">>,
       <<"1", "6", "9", ".", "8">>, <<"1", "6", "6", ".", "8", "3">>,
       <<"1", "7", "6", ".", "0", "1">>, <<"1", "9", "4", ".", "4", "4">>,
       <<"1", "8", "4", ".", "4">>, <<"1", "6", "5", ".", "3", "3">>,
       <<"1", "6", "2", ".", "2", "7">>, <<"1", "0", "3", ".", "3", "8">>,
       <<"8", "6", ".", "2", "2">>, <<"1", "7", "6", "3", ".", "5", "4">>>>,
     <<<<"2", "0", "1", "4">>, <<"8", "8", ".", "3", "1">>,
       <<"1", "0", "0", ".", "1", "6">>, <<"1", "4", "0", ".", "7", "4">>,
       <<"1", "5", "6", ".", "8", "7">>, <<"1", "7", "6", ".", "6", "5">>,
       <<"1", "6", "9", ".", "0", "9">>, <<"1", "8", "3", ".", "9", "2">>,
       <<"1", "8", "5", ".", "0", "5">>, <<"1", "4", "6", ".", "6", "7">>,
       <<"1", "4", "7", ".", "8", "9">>, <<"1", "0", "5", ".", "6", "4">>,
       <<"9", "7", ".", "6", "9">>, <<"1", "6", "9", "8", ".", "6", "8">>>>,
     <<<<"2", "0", "1", "5">>, <<"9", "1", ".", "6", "6">>,
       <<"1", "0", "2", ".", "4", "3">>, <<"1", "2", "6", ".", "9", "6">>,
       <<"1", "6", "3", ".", "8", "1">>, <<"1", "7", "6", ".", "2", "6">>,
       <<"1", "7", "0", ".", "4", "7">>, <<"1", "8", "0", ".", "7", "8">>,
       <<"1", "7", "5", ".", "9", "8">>, <<"1", "5", "3", ".", "4", "4">>,
       <<"1", "3", "3", ".", "5", "3">>, <<"1", "2", "7", ".", "2", "9">>,
       <<"1", "1", "4", ".", "7", "8">>, <<"1", "7", "1", "7", ".", "3", "7">>>>,
     <<<<"2", "0", "1", "6">>, <<"9", "1", ".", "5", "5">>,
       <<"1", "3", "0", ".", "4", "2">>, <<"1", "5", "3", ".", "0", "8">>,
       <<"1", "6", "9", ".", "6", "8">>, <<"1", "5", "6", ".", "5", "8">>,
       <<"1", "7", "2", ".", "2">>, <<"1", "8", "6", ".", "6">>,
       <<"1", "7", "8", ".", "0", "8">>, <<"1", "5", "5", ".", "9", "8">>,
       <<"1", "4", "4", ".", "2", "3">>, <<"1", "0", "8", ".", "4", "2">>,
       <<"9", "5", ".", "0", "2">>, <<"1", "7", "4", "1", ".", "8", "4">>>>,
     <<<<"2", "0", "1", "7">>, <<"1", "0", "0", ".", "0", "3">>,
       <<"1", "1", "5", ".", "6", "6">>, <<"1", "4", "0", ".", "6", "1">>,
       <<"1", "5", "7", ".", "9", "8">>, <<"1", "6", "4", ".", "0", "1">>,
       <<"1", "7", "0", ".", "4", "3">>, <<"1", "8", "1", ".", "6", "2">>,
       <<"1", "7", "7", ".", "2", "4">>, <<"1", "5", "6", ".", "4", "7">>,
       <<"1", "4", "6", ".", "0", "3">>, <<"1", "1", "2", ".", "8">>,
       <<"8", "9", ".", "8", "3">>, <<"1", "7", "1", "2", ".", "6", "9">>>>,
     <<<<"2", "0", "1", "8">>, <<"1", "1", "0", ".", "3", "9">>,
       <<"9", "1", ".", "7", "1">>, <<"1", "2", "8", ".", "2", "1">>,
       <<"1", "5", "9", ".", "2", "6">>, <<"1", "2", "4", ".", "0", "9">>,
       <<"1", "3", "0", ".", "5", "3">>, <<"1", "3", "9", ".", "0", "7">>,
       <<"1", "4", "5", ".", "9", "1">>, <<"1", "3", "9", ".", "5", "2">>,
       <<"1", "4", ".", "8">>, <<"1", "4", ".", "0", "4">>,
       <<"5", "3", ".", "9", "8">>, <<"1", "2", "5", "1", ".", "5">>>>,
     <<<<"2", "0", "1", "9">>, <<"5", "1", ".", "6", "8">>, EmptyCell,
       <<"1", "0", "9", ".", "7", "7">>, <<"1", "3", "2", ".", "1", "8">>,
       <<"1", "4", "8", ".", "8", "2">>, <<"1", "6", "7", ".", "3">>,
       <<"1", "7", "8", ".", "0", "8">>, <<"1", "7", "7", ".", "8", "2">>,
       <<"1", "6", "3", ".", "0", "7">>, <<"1", "3", "8", ".", "5", "2">>,
       <<"9", "7", ".", "4", "8">>, <<"9", "0", ".", "4", "5">>,
       <<"1", "4", "5", "5", ".", "1", "6">>>>,
     <<<<"2", "0", "2", "0">>, <<"1", "0", "3", ".", "3", "2">>,
       <<"1", "0", "4", ".", "2", "7">>, <<"1", "2", "4", ".", "5", "8">>,
       <<"1", "4", "7", ".", "6", "6">>, <<"1", "6", "5", ".", "1">>,
       <<"1", "5", "7", ".", "7">>, <<"1", "7", "4", ".", "7", "9">>,
       <<"1", "7", "0", ".", "1">>, <<"1", "4", "4", ".", "9", "3">>,
       <<"1", "2", "1", ".", "7", "6">>, <<"9", "4", ".", "1", "2">>,
       <<"7", "1", ".", "7">>, <<"1", "5", "8", "0", ".", "0", "4">>>>,
     <<<<"2", "0", "2", "1">>, <<"3", "2", ".", "9", "6">>,
       <<"1", "1", "4", ".", "5", "7">>, <<"1", "3", "4", ".", "7">>,
       <<"1", "3", "9", ".", "5", "1">>, <<"1", "6", "9", ".", "3", "8">>,
       <<"1", "5", "8", ".", "0", "9">>, <<"1", "6", "7", ".", "8", "3">>,
       <<"1", "6", "2", ".", "5", "2">>, <<"5", "7", ".", "2", "5">>,
       <<"9", "7", ".", "7">>, <<"9", "3", ".", "2", "8">>,
       <<"7", "8", ".", "2", "9">>, <<"1", "4", "0", "6", ".", "0", "7">>>>,
     <<<<"2", "0", "2", "2">>, <<"7", "3", ".", "4", "4">>,
       <<"8", "5", ".", "8", "8">>, <<"9", "9", ".", "5", "2">>,
       <<"1", "4", "0", ".", "3", "9">>, <<"1", "4", "8", ".", "8", "7">>,
       <<"1", "4", "5", ".", "1", "1">>, <<"1", "3", "0", ".", "6", "7">>,
       <<"1", "7", "0", ".", "4", "6">>, <<"1", "0", "2", ".", "0", "7">>,
       EmptyCell, EmptyCell, EmptyCell, <<"1", "0", "9", "6", ".", "4", "1">>>>,
     <<<<"M", "e", "a", "n", " ", "v", "a", "l", "u", "e">>,
       <<"8", "2", ".", "8", "1">>, <<"1", "0", "8", ".", "9", "3">>,
       <<"1", "3", "2", ".", "9", "3">>, <<"1", "5", "5", ".", "0", "4">>,
       <<"1", "5", "9", ".", "8", "6">>, <<"1", "6", "2", ".", "3", "7">>,
       <<"1", "7", "9", ".", "1", "7">>, <<"1", "7", "6", ".", "3", "5">>,
       <<"1", "4", "0", ".", "3", "9">>, <<"1", "2", "7", ".", "0">>,
       <<"9", "8", ".", "7", "6">>, <<"8", "8", ".", "0", "8">>,
       <<"1", "6", "1", "1", ".", "7">>>>,
     <<<<"Y", "e", "a", "r", " ", "p", "o", "r", "t", "i", "o", "n">>,
       <<"5", ".", "1", "4", "%">>, <<"6", ".", "7", "6", "%">>,
       <<"8", ".", "2", "5", "%">>, <<"9", ".", "6", "2", "%">>,
       <<"9", ".", "9", "2", "%">>, <<"1", "0", ".", "0", "7", "%">>,
       <<"1", "1", ".", "1", "2", "%">>, <<"1", "0", ".", "9", "4", "%">>,
       <<"8", ".", "7", "1", "%">>, <<"7", ".", "8", "8", "%">>,
       <<"6", ".", "1", "3", "%">>, <<"5", ".", "4", "7", "%">>,
       <<"1", "0", "0", ".", "0", "0", "%">>>>
    >>

\* Lines 25-40.
additional_rows ==
    <<
     <<<<"Y", "i", "e", "l", "d", " ", "e", "x", "p", "e", "c", "t", "a", "t", "i", "o", "n", "s", " ", "*">>,
       <<"1", "0", "8", ".", "1", "5">>, <<"1", "2", "1", ".", "2", "8">>,
       <<"1", "5", "7", ".", "5">>, <<"1", "6", "6", ".", "6">>,
       <<"1", "7", "5", ".", "8", "8">>, <<"1", "6", "9", ".", "4">>,
       <<"1", "7", "4", ".", "6", "5">>, <<"1", "7", "2", ".", "3", "8">>,
       <<"1", "5", "6", ".", "2", "8">>, <<"1", "3", "8", ".", "7", "8">>,
       <<"1", "0", "8", ".", "8", "5">>, <<"1", "0", "0", ".", "2", "8">>,
       <<"1", "7", "5", "0", ".", "0">>>>,
     <<<<"1", "9", "8", "2", "3", ".", "8", "1">>, EmptyCell, EmptyCell,
       EmptyCell, EmptyCell, EmptyCell, EmptyCell, EmptyCell, EmptyCell,
       EmptyCell, EmptyCell, EmptyCell, EmptyCell,
       <<"1", "9", "8", "2", "3", ".", "8", "1">>>>
    >>

\* Line 46: the title line written before the table.
header ==
    <<"Specific PV System Yield [kWh/kWp]", "January", "February", "March",
      "April", "May", "June", "July", "August", "September", "October",
      "November", "December", "Total">>

\* The header line to_csv writes (line 51): the keys of chorio_data.
ColumnsLine ==
    <<<<"Y", "e", "a", "r">>, <<"J", "a", "n", "u", "a", "r", "y">>,
      <<"F", "e", "b", "r", "u", "a", "r", "y">>, <<"M", "a", "r", "c", "h">>,
      <<"A", "p", "r", "i", "l">>, <<"M", "a", "y">>, <<"J", "u", "n", "e">>,
      <<"J", "u", "l", "y">>, <<"A", "u", "g", "u", "s", "t">>,
      <<"S", "e", "p", "t", "e", "m", "b", "e", "r">>,
      <<"O", "c", "t", "o", "b", "e", "r">>,
      <<"N", "o", "v", "e", "m", "b", "e", "r">>,
      <<"D", "e", "c", "e", "m", "b", "e", "r">>, <<"T", "o", "t", "a", "l">>>>

\* Lines 49-51 as read_csv of line 185 (header=0) reads them: the title
\* line gives the labels, and the header line of the table is the first
\* data row, followed by the rows of the table.
written_csv(title, columns_line, rows) ==
    Table(title, <<columns_line>> \o rows)

chorio_specific_yield_csv ==
    written_csv(header, ColumnsLine, chorio_data \o additional_rows)

\* The header line for the columns Year, January, March and Total, to which
\* the rows of RowSet are cut.
ShortColumnsLine ==
    <<ColumnsLine[1], ColumnsLine[2], ColumnsLine[4], ColumnsLine[14]>>

ShortTitles ==
    {<<header[1], "January", "March">>,
     <<header[1], "January", "March", "Total">>}

-----------------------------------------------------------------------------
(* main(): one action per call of the loop body of lines 456-483.          *)

Init ==
    /\ site = 1
    /\ pc = "fetch"
    /\ hourly_columns = None
    /\ poa_df = None
    /\ raw = None
    /\ sunny_portal_data = None
    /\ pvout_fetch = "none"
    /\ pvgis_pvout_monthly = None
    /\ pr_df = None
    /\ summary_stats = None
    /\ completed = {}
    /\ skipped = {}
    /\ error = "none"

\* The for statement of line 456 takes the next site, or the loop ends and
\* main() prints its last lines (485-487).  The names bound in the loop body
\* are rebound before they are read again.
NextSite ==
    /\ site' = site + 1
    /\ pc' = IF site = Len(sites) THEN "done" ELSE "fetch"
    /\ hourly_columns' = None
    /\ poa_df' = None
    /\ raw' = None
    /\ sunny_portal_data' = None
    /\ pvout_fetch' = "none"
    /\ pvgis_pvout_monthly' = None
    /\ pr_df' = None
    /\ summary_stats' = None

\* An exception no handler catches leaves main().
Raise(stage) ==
    /\ pc' = "crashed"
    /\ error' = stage
    /\ UNCHANGED <<site, completed, skipped>>

\* Line 464 with the request or the processing failing: the exception is
\* caught at line 167 and None is returned.
FetchFails ==
    /\ pc = "fetch"
    /\ hourly_columns' = None
    /\ poa_df' = None
    /\ pc' = "skip"
    /\ UNCHANGED <<site, raw, sunny_portal_data, pvout_fetch,
                   pvgis_pvout_monthly, pr_df, summary_stats, completed,
                   skipped, error>>

FetchRaisesOnColumns(columns) ==
    /\ pc = "fetch"
    /\ ProcessingRaises(columns)
    /\ hourly_columns' = Some(columns)
    /\ poa_df' = None
    /\ pc' = "skip"
    /\ UNCHANGED <<site, raw, sunny_portal_data, pvout_fetch,
                   pvgis_pvout_monthly, pr_df, summary_stats, completed,
                   skipped, error>>

\* Lines 466 and 482-483: poa_df is None and the site is skipped.
SkipSite ==
    /\ pc = "skip"
    /\ skipped' = skipped \cup {site}
    /\ NextSite
    /\ UNCHANGED <<completed, error>>

\* Line 464 with the data fetched and processed (line 166).
FetchSucceeds(columns, poa) ==
    /\ pc = "fetch"
    /\ ~ProcessingRaises(columns)
    /\ hourly_columns' = Some(columns)
    /\ poa_df' = Some(poa)
    /\ pc' = "load"
    /\ UNCHANGED <<site, raw, sunny_portal_data, pvout_fetch,
                   pvgis_pvout_monthly, pr_df, summary_stats, completed,
                   skipped, error>>

fetch_pvgis_data ==
    \/ FetchFails
    \/ \E columns \in HourlyColumnSets : FetchRaisesOnColumns(columns)
    \/ \E columns \in HourlyColumnSets, poa \in PoaSet :
           FetchSucceeds(columns, poa)

\* Line 467.
LoadSunnyPortalData(file) ==
    /\ pc = "load"
    /\ raw' = file
    /\ sunny_portal_data' = load_sunny_portal_data(file)
    /\ pc' = "calc"
    /\ UNCHANGED <<site, hourly_columns, poa_df, pvout_fetch,
                   pvgis_pvout_monthly, pr_df, summary_stats, completed,
                   skipped, error>>

\* Lines 321-349, once pvgis_pvout_monthly is bound: sunny_portal_data.get
\* (line 335) raises AttributeError on None, outside the try of line 271.
RecordLoop(pvout) ==
    /\ pvgis_pvout_monthly' = Some(pvout)
    /\ IF sunny_portal_data = None
       THEN /\ Raise("calc")
            /\ UNCHANGED pr_df
       ELSE /\ pr_df' = Some(PerformanceRecords(poa_df.val, pvout,
                                                sunny_portal_data.val))
            /\ pc' = "save"
            /\ UNCHANGED <<site, completed, skipped, error>>
    /\ UNCHANGED <<hourly_columns, poa_df, raw, sunny_portal_data,
                   summary_stats>>

\* Line 468 with the PVOUT request answered (lines 296-308).
CalculateWithPvgis(series) ==
    /\ pc = "calc"
    /\ pvout_fetch' = "pvgis"
    /\ RecordLoop(MonthlyMean(series, "P"))

\* The except branch of line 312 without the placeholder: the error leaves.
CalculateWithoutPlaceholder ==
    /\ pc = "calc"
    /\ pvout_fetch' = "failed"
    /\ Raise("calc")
    /\ UNCHANGED <<hourly_columns, poa_df, raw, sunny_portal_data,
                   pvgis_pvout_monthly, pr_df, summary_stats>>

\* Line 468 with the PVOUT request failing (lines 312-319).
CalculateWithPlaceholder ==
    /\ pc = "calc"
    /\ pvout_fetch' = "failed"
    /\ RecordLoop(PlaceholderPVOUT)

calculate_performance_ratio ==
    \/ \E series \in PvoutSet : CalculateWithPvgis(series)
    \/ CalculateWithPlaceholder

\* Line 471: the files are written and the summary is returned; makedirs,
\* to_csv or open may raise OSError.
SaveResults ==
    /\ pc = "save"
    /\ summary_stats' = Some(SummaryStats(poa_df.val, pr_df.val))
    /\ pc' = "chart"
    /\ UNCHANGED <<site, hourly_columns, poa_df, raw, sunny_portal_data,
                   pvout_fetch, pvgis_pvout_monthly, pr_df, completed,
                   skipped, error>>

SaveRaises ==
    /\ pc = "save"
    /\ Raise("save")
    /\ UNCHANGED <<hourly_columns, poa_df, raw, sunny_portal_data,
                   pvout_fetch, pvgis_pvout_monthly, pr_df, summary_stats>>

\* Lines 472-481: the chart is saved and the site is reported completed.
CreateChart ==
    /\ pc = "chart"
    /\ completed' = completed \cup {site}
    /\ NextSite
    /\ UNCHANGED <<skipped, error>>

ChartRaises ==
    /\ pc = "chart"
    /\ Raise("chart")
    /\ UNCHANGED <<hourly_columns, poa_df, raw, sunny_portal_data,
                   pvout_fetch, pvgis_pvout_monthly, pr_df, summary_stats>>

Next ==
    \/ fetch_pvgis_data
    \/ SkipSite
    \/ \E file \in PipelineFiles : LoadSunnyPortalData(file)
    \/ calculate_performance_ratio
    \/ SaveResults
    \/ SaveRaises
    \/ CreateChart
    \/ ChartRaises

Spec == Init /\ [][Next]_vars

-----------------------------------------------------------------------------
(* load_sunny_portal_data on every table of a bounded family.              *)

MaxRows == 5

FirstLabels ==
    {"Unnamed: 0", "Year", "year", "Etos", "Specific PV System Yield [kWh/kWp]"}

MonthLayouts ==
    {<<"January", "March">>, <<"January", "March", "Total">>,
     <<"Ian", "Jan", "Total">>}

RowSet == {Row2010, Row2011, Row2011Again, Row2012, MeanValueRow}

RowSeqs == UNION {[1..n -> RowSet] : n \in 0..MaxRows}

\* The scenario of the specification: January absent in 2010 and 106.70,
\* 53.28, 90.43 in 2011-2013, followed by the four summary rows.
Row2012Scenario ==
    <<<<"2", "0", "1", "2">>, <<"5", "3", ",", "2", "8">>,
      <<"1", "5", "6", ",", "1", "0">>, EmptyCell>>

Row2013Scenario ==
    <<<<"2", "0", "1", "3">>, <<"9", "0", ",", "4", "3">>,
      <<"1", "4", "9", ",", "6", "8">>, EmptyCell>>

ScenarioTable ==
    TableOf(<<"Unnamed: 0", "January", "March", "Total">>,
            <<Row2010, Row2011, Row2012Scenario, Row2013Scenario>>
                \o SummaryFooter)

MaxYearRows == 3

\* The year rows a file may hold above its summary rows.
YearRowSeqs == UNION {[1..n -> RowSet] : n \in 0..MaxYearRows}

\* Files of the layout the generator script writes: the file of Chorio, and
\* files of the short columns with any year rows and the summary rows.
GeneratedFiles ==
    {chorio_specific_yield_csv}
        \cup {written_csv(title,
                          Cut(ShortColumnsLine, title),
                          RowsFor(rows \o SummaryFooter, title)) :
                 title \in ShortTitles, rows \in YearRowSeqs}

NormalizerFiles ==
    {NoFile, Unreadable, ScenarioTable}
        \cup {TableOf(<<first>> \o layout, rows) :
                 first \in FirstLabels, layout \in MonthLayouts,
                 rows \in RowSeqs}

\* Tables of year rows followed by the four summary rows.
YearRowFiles ==
    {TableOf(<<first>> \o layout, rows \o SummaryFooter) :
        first \in FirstLabels, layout \in MonthLayouts, rows \in YearRowSeqs}

\* main() at line 467 of the first site, the fetch done.
InitNormalize ==
    /\ site = 1
    /\ pc = "load"
    /\ hourly_columns = Some(POAComponents)
    /\ poa_df = Some(PoaSeries(<<2012, 2013>>, AllMonths))
    /\ raw = None
    /\ sunny_portal_data = None
    /\ pvout_fetch = "none"
    /\ pvgis_pvout_monthly = None
    /\ pr_df = None
    /\ summary_stats = None
    /\ completed = {}
    /\ skipped = {}
    /\ error = "none"

NextNormalize ==
    /\ pc = "load"
    /\ \/ \E file \in NormalizerFiles : LoadSunnyPortalData(file)
       \/ \E file \in YearRowFiles : LoadSunnyPortalData(file)
       \/ \E file \in GeneratedFiles : LoadSunnyPortalData(file)

SpecNormalize == InitNormalize /\ [][NextNormalize]_vars

\* load_sunny_portal_data on the files of the generator's layout only.
NextGenerated ==
    /\ pc = "load"
    /\ \E file \in GeneratedFiles : LoadSunnyPortalData(file)

SpecGenerated == InitNormalize /\ [][NextGenerated]_vars

-----------------------------------------------------------------------------
(* save_results on every record sequence of a bounded family.              *)

MaxRecords == 2

\* Records as the record loop builds them, for two months.
RecordSet ==
    {PerformanceRecord(m, <<>>, pvout, sunny) :
        m \in {1, 3},
        pvout \in {PlaceholderPVOUT, [k \in {3} |-> Rat(15000, 1)]},
        sunny \in {[k \in {3} |-> Rat(15750, 1)],
                   [k \in {1, 3} |-> Rat(10670, 2)], <<>>}}

RecordSeqs == UNION {[1..n -> RecordSet] : n \in 0..MaxRecords}

\* main() at line 471, the records in hand.
InitSummary ==
    /\ site = 1
    /\ pc = "save"
    /\ hourly_columns = Some(POAComponents)
    /\ poa_df \in {Some(poa) : poa \in PoaSet}
    /\ raw = NoFile
    /\ sunny_portal_data = Some(<<>>)
    /\ pvout_fetch = "pvgis"
    /\ pvgis_pvout_monthly = Some(<<>>)
    /\ pr_df \in {Some(records) : records \in RecordSeqs}
    /\ summary_stats = None
    /\ completed = {}
    /\ skipped = {}
    /\ error = "none"

NextSummary == SaveResults \/ SaveRaises

SpecSummary == InitSummary /\ [][NextSummary]_vars

-----------------------------------------------------------------------------
(* Properties.                                                             *)

Records == pr_df.val

\* The state is one after the call of calculate_performance_ratio.
Reconciled == pc \in {"save", "chart", "crashed"}

FileAbsent == raw # None /\ raw.kind = "absent"

\* a / b = c / d for exact means
RatEq(a, b) == a.num * b.den = b.num * a.den

\* C1: when the actuals file of the site is absent, the pipeline of the site
\* does not fail: calculate_performance_ratio completes and every record
\* carries the actual value 0.
C1_AbsentFileGivesZeroActuals ==
    (FileAbsent /\ Reconciled) =>
        /\ error # "calc"
        /\ pr_df # None
        /\ \A i \in 1..Len(Records) : Records[i].Real_kWh_kWp = Zero

\* C2: a failure of a stage for one site ends only that site's pipeline:
\* main() is never left by an exception, and when it reaches its last step
\* every site of the table was completed or skipped.
C2_FailureEndsOnlyThatSite ==
    /\ pc # "crashed"
    /\ pc = "done" => completed \cup skipped = 1..Len(sites)

\* C3 as stated: a failed request of either kind is recovered with the
\* placeholder table and the site goes on to produce records; no failed
\* request makes main() skip the site.
C3_EveryFetchFailureUsesPlaceholder ==
    /\ ~(pc = "skip" /\ hourly_columns = None)
    /\ pvout_fetch = "failed" =>
           /\ pvgis_pvout_monthly = Some(PlaceholderPVOUT)
           /\ pr_df # None

\* C3 as amended: when the PVOUT request of calculate_performance_ratio
\* fails, the 12-entry placeholder table is what the record loop runs on:
\* every record it builds carries the placeholder value of its month, the
\* records are built whenever the actuals are a dict, and the site is not
\* skipped.  When the request of fetch_pvgis_data fails nothing is
\* substituted: None is returned and main() is about to skip the site.
C3_PvoutFailureUsesPlaceholder ==
    /\ pvout_fetch = "failed" =>
           /\ pvgis_pvout_monthly # None
           /\ DOMAIN pvgis_pvout_monthly.val = 1..12
           /\ pvgis_pvout_monthly.val[1] = Rat(9437, 1)
           /\ pvgis_pvout_monthly.val[6] = Rat(22849, 1)
           /\ pvgis_pvout_monthly.val[12] = Rat(12143, 1)
           /\ site \notin skipped
           /\ sunny_portal_data # None => (pr_df # None /\ error # "calc")
           /\ pr_df # None =>
                  \A i \in 1..Len(Records) :
                      Records[i].PVOUT_kWh_kWp
                          = pvgis_pvout_monthly.val[Records[i].Month]
    /\ (pc = "skip" /\ hourly_columns = None) =>
           /\ poa_df = None
           /\ pvgis_pvout_monthly = None
           /\ pr_df = None

\* C3 witness: the PVOUT request failed and the records carry the
\* placeholder values.
C3_Witness ==
    /\ pvout_fetch = "failed"
    /\ pr_df # None
    /\ Records[3].PVOUT_kWh_kWp = Rat(13789, 1)

MonthsOf(records) == {records[i].Month : i \in 1..Len(records)}

\* C4: the reconciliation returns exactly 12 records, with the months
\* 1, 2, ..., 12 in this order, whatever months its three inputs hold; for a
\* month that an input does not hold the record carries 0 for that input.
C4_TwelveRecordsInMonthOrder ==
    pr_df # None =>
        /\ Len(Records) = 12
        /\ \A i \in 1..Len(Records) :
               /\ Records[i].Month = i
               /\ i \notin DOMAIN pvgis_pvout_monthly.val
                      => Records[i].PVOUT_kWh_kWp = Zero
               /\ i \notin DOMAIN sunny_portal_data.val
                      => Records[i].Real_kWh_kWp = Zero
               /\ i \notin MonthsOf(poa_df.val)
                      => Records[i].POA_kWh_m2 = Zero

\* C4 witness: records built from inputs that each lack some month.
C4_Witness ==
    /\ pr_df # None
    /\ DOMAIN pvgis_pvout_monthly.val = {3}
    /\ DOMAIN sunny_portal_data.val = {}
    /\ MonthsOf(poa_df.val) = {1, 12}

\* C5: in every record with a simulated value > 0 the ratio is the actual
\* value over the simulated value, rounded to the nearest ten-thousandth;
\* simulated 150.00 and actual 157.50 give 1.05.
C5_RatioIsActualOverSimulated ==
    pr_df # None =>
        \A i \in 1..Len(Records) :
            LET r == Records[i]
                n == r.Real_kWh_kWp.num * r.PVOUT_kWh_kWp.den
                d == r.Real_kWh_kWp.den * r.PVOUT_kWh_kWp.num
                below == (10000 * n) \div d
                rest == (10000 * n) % d
            IN  r.PVOUT_kWh_kWp.num > 0 =>
                    /\ r.Performance_Ratio \in {below, below + 1}
                    /\ r.Performance_Ratio = below => rest <= d - rest
                    /\ r.Performance_Ratio = below + 1 => rest >= d - rest
                    /\ (RatEq(r.PVOUT_kWh_kWp, Rat(15000, 1))
                            /\ RatEq(r.Real_kWh_kWp, Rat(15750, 1)))
                           => r.Performance_Ratio = 10500

\* C5 witness: the record of March with simulated 150.00 and actual 157.50.
C5_Witness ==
    /\ pr_df # None
    /\ RatEq(Records[3].PVOUT_kWh_kWp, Rat(15000, 1))
    /\ RatEq(Records[3].Real_kWh_kWp, Rat(15750, 1))
    /\ Records[3].Performance_Ratio = 10500

\* C6 as stated: in every record the ratio is a number >= 0, and it is 0
\* whenever the simulated value is 0, whatever the actual value.
C6_RatioNeverNegative ==
    pr_df # None =>
        \A i \in 1..Len(Records) :
            /\ Records[i].Performance_Ratio \in Nat
            /\ Records[i].PVOUT_kWh_kWp.num = 0
                   => Records[i].Performance_Ratio = 0

\* C6 as amended: in every record the ratio is a number; it is 0 whenever
\* the simulated value is 0 (or below); it is >= 0 whenever the actual value
\* is >= 0, and <= 0 when the actual value, read from a cell with a minus
\* sign, is negative.
C6_RatioSignFollowsActual ==
    pr_df # None =>
        \A i \in 1..Len(Records) :
            LET r == Records[i]
            IN  /\ r.Performance_Ratio \in Int
                /\ r.PVOUT_kWh_kWp.num <= 0 => r.Performance_Ratio = 0
                /\ r.Real_kWh_kWp.num >= 0 => r.Performance_Ratio >= 0
                /\ r.Real_kWh_kWp.num < 0 => r.Performance_Ratio <= 0

\* C6 witness: simulated 0 and actual 12.30 in March give the ratio 0, and
\* the negative actual of January gives a negative ratio.
C6_Witness ==
    /\ pr_df # None
    /\ Records[3].PVOUT_kWh_kWp.num = 0
    /\ RatEq(Records[3].Real_kWh_kWp, Rat(1230, 1))
    /\ Records[3].Performance_Ratio = 0
    /\ Records[1].Real_kWh_kWp.num < 0
    /\ Records[1].Performance_Ratio < 0

\* The state is one after the call of load_sunny_portal_data on a table.
TableLoaded == pc = "calc" /\ raw # None /\ raw.kind = "table"

KeptRows(table) ==
    [i \in 1..(IF Len(table.rows) > 4 THEN Len(table.rows) - 4 ELSE 0) |->
        table.rows[i]]

\* The records of month m in the rows that are kept and carry a year, each
\* with the text of its cell.
CellsOfMonth(table, m) ==
    SelectSeq(MapMonths(YearToNumeric(Melt(RenameFirstColumn(table.columns),
                                           KeptRows(table)))),
              LAMBDA r : r.Month_Num = m)

\* C7: the average of a month in the profile is taken over the years whose
\* cell for the month is present; a year with an empty cell is left out and
\* not counted as 0.  With January empty in 2010 and 106.70, 53.28, 90.43
\* in 2011-2013 the January average is 83.47.
C7_AbsentCellsLeftOutOfTheMean ==
    (TableLoaded /\ sunny_portal_data # None) =>
        /\ \A m \in DOMAIN sunny_portal_data.val :
               LET present == SelectSeq(CellsOfMonth(raw, m),
                                        LAMBDA r : r.Value # EmptyCell)
               IN  Len(present) > 0 =>
                       RatEq(sunny_portal_data.val[m],
                             Mean([i \in 1..Len(present) |->
                                      SpecificYield(present[i].Value)]))
        /\ raw = ScenarioTable => RatEq(sunny_portal_data.val[1], Rat(8347, 1))

\* The table with its last four rows emptied.
WithBlankFooter(table) ==
    LET n == Len(table.rows)
        blank == [j \in 1..Len(table.columns) |-> EmptyCell]
    IN  Table(table.columns,
              [i \in 1..n |-> IF i > n - 4 THEN blank ELSE table.rows[i]])

\* C8: the last four rows are dropped by position, whatever they hold, and
\* no other row is dropped by this step: the result is the one of the table
\* with these rows emptied, and every earlier row with a year counts in the
\* mean of each month; a table of fewer than four rows gives the empty
\* series, returned as a result and not as an error.
C8_LastFourRowsDroppedByPosition ==
    TableLoaded =>
        /\ Len(raw.rows) < 4 => sunny_portal_data = Some(<<>>)
        /\ sunny_portal_data = load_sunny_portal_data(WithBlankFooter(raw))
        /\ sunny_portal_data # None =>
               \A m \in DOMAIN sunny_portal_data.val :
                   sunny_portal_data.val[m].den = Len(CellsOfMonth(raw, m))

\* C8 where the year column is found (the first label is neither 'year' nor
\* 'Etos', the failure of C12): the statement of C8 holds.
C8_HoldsWhenYearColumnFound ==
    (TableLoaded /\ raw.columns[1] \notin {"year", "Etos"}) =>
        /\ sunny_portal_data # None
        /\ C8_LastFourRowsDroppedByPosition

RECURSIVE Pow10(_)
Pow10(k) == IF k = 0 THEN 1 ELSE 10 * Pow10(k - 1)

\* The number a cell denotes, in hundredths, read digit by digit with ","
\* or "." as the decimal mark; 0 for an empty cell or text that is no number.
CellNumber(cell) ==
    LET negative == cell # <<>> /\ cell[1] = "-"
        body == IF negative THEN Tail(cell) ELSE cell
        marks == {i \in 1..Len(body) : body[i] \in {",", "."}}
        p == IF marks = {} THEN Len(body) + 1 ELSE CHOOSE i \in marks : TRUE
        places == (1..Len(body)) \ marks
        digit(i) == DigitValue[body[i]] *
                        (IF i < p THEN 100 * Pow10(p - 1 - i)
                         ELSE IF i = p + 1 THEN 10
                         ELSE IF i = p + 2 THEN 1 ELSE 0)
        total[S \in SUBSET places] ==
            IF S = {} THEN 0
            ELSE LET i == CHOOSE i \in S : TRUE IN digit(i) + total[S \ {i}]
    IN  IF \/ places = {}
           \/ Cardinality(marks) > 1
           \/ \E i \in places : body[i] \notin DOMAIN DigitValue
        THEN 0
        ELSE IF negative THEN -total[places] ELSE total[places]

MonthColumns(table) ==
    {j \in 2..Len(table.columns) : table.columns[j] # "Total"}

\* A well-formed wide table: a year of four digits in the first cell of
\* every kept row, no year twice, every column but the first and 'Total' a
\* month label of the lexicon, no month twice.
WellFormed(table) ==
    LET kept == KeptRows(table)
    IN  /\ \A i \in 1..Len(kept) :
               Len(kept[i][1]) = 4 /\ AllDigits(kept[i][1])
        /\ \A i, k \in 1..Len(kept) : i # k => kept[i][1] # kept[k][1]
        /\ \A j \in MonthColumns(table) :
               table.columns[j] \in DOMAIN month_name_to_num
        /\ \A j, k \in MonthColumns(table) :
               j # k => month_name_to_num[table.columns[j]]
                            # month_name_to_num[table.columns[k]]

\* The long-form series holds, for every kept row and month column, exactly
\* one record of that year and month, with the number of the cell, and no
\* other record.
RoundTrip(table, long) ==
    LET kept == KeptRows(table)
    IN  /\ Len(long) = Len(kept) * Cardinality(MonthColumns(table))
        /\ \A i \in 1..Len(kept) : \A j \in MonthColumns(table) :
               \E k \in 1..Len(long) :
                   /\ 100 * long[k].Year = CellNumber(kept[i][1])
                   /\ long[k].Month_Num = month_name_to_num[table.columns[j]]
                   /\ long[k].Value = CellNumber(kept[i][j])

\* C9: for every well-formed wide table the long-form series, grouped by
\* year and spread by month, gives back the grid of the kept rows cell for
\* cell, a comma-decimal cell being its number and an absent or unparseable
\* cell 0; the 'Total' column gives no cell.
C9_RoundTrip ==
    (TableLoaded /\ WellFormed(raw)) =>
        /\ sunny_portal_data # None
        /\ RoundTrip(raw, df_melted(raw))

\* C9 where the year column is found (the first label is neither 'year' nor
\* 'Etos', the failure of C12): the round trip holds.
C9_HoldsWhenYearColumnFound ==
    (TableLoaded /\ WellFormed(raw) /\ raw.columns[1] \notin {"year", "Etos"}) =>
        /\ sunny_portal_data # None
        /\ RoundTrip(raw, df_melted(raw))

\* The state is one after save_results computed the summary of one record.
SingleRecordSummarised ==
    pr_df # None /\ Len(Records) = 1 /\ summary_stats # None

\* C10 as stated: the summary of a single record has mean, minimum and
\* maximum equal to the ratio of the record and standard deviation 0.
C10_SingleRecordStdZero ==
    SingleRecordSummarised =>
        /\ summary_stats.val.Average_Performance_Ratio
               = Rat(Records[1].Performance_Ratio, 1)
        /\ summary_stats.val.Min_Monthly_PR = Num(Records[1].Performance_Ratio)
        /\ summary_stats.val.Max_Monthly_PR = Num(Records[1].Performance_Ratio)
        /\ summary_stats.val.PR_Standard_Deviation = Num(0)

\* C10 as amended: the summary of a single record has mean, minimum and
\* maximum equal to the ratio of the record, and its standard deviation,
\* the sample one, is not defined (NaN).
C10_SingleRecordStdNaN ==
    SingleRecordSummarised =>
        /\ summary_stats.val.Average_Performance_Ratio
               = Rat(Records[1].Performance_Ratio, 1)
        /\ summary_stats.val.Min_Monthly_PR = Num(Records[1].Performance_Ratio)
        /\ summary_stats.val.Max_Monthly_PR = Num(Records[1].Performance_Ratio)
        /\ summary_stats.val.PR_Standard_Deviation = NaN

\* C10 witness: the summary of the single record of ratio 1.05.
C10_Witness ==
    /\ SingleRecordSummarised
    /\ Records[1].Performance_Ratio = 10500
    /\ summary_stats.val.Max_Monthly_PR = Num(10500)

\* The state is one after fetch_pvgis_data was handed hourly data.
Aggregated == hourly_columns # None /\ pc # "fetch"

\* C11: with hourly data in hand, fetch_pvgis_data fails (it returns None
\* and main() is about to skip the site) only when the column 'ghi' is
\* missing and one of the three POA components is missing too; when 'ghi'
\* is among the fetched columns, or the three components are, it returns
\* the monthly series.
C11_FailsOnlyWhenUnderivable ==
    Aggregated =>
        LET columns == hourly_columns.val
            underivable == "ghi" \notin columns
                               /\ ~(POAComponents \subseteq columns)
        IN  /\ pc = "skip" => underivable
            /\ ~underivable => poa_df # None

\* C11 where 'ghi' is not among the fetched columns: the series is returned
\* exactly when the three components are there.
C11_HoldsWhenGhiAbsent ==
    (Aggregated /\ "ghi" \notin hourly_columns.val) =>
        /\ pc = "skip" <=> ~(POAComponents \subseteq hourly_columns.val)
        /\ pc # "skip" <=> poa_df # None

\* 'ghi' among the fetched columns: the derivation is not run, the column
\* 'GHI' read at line 111 does not exist and the site is skipped.
C11_GhiPresentSkipped ==
    /\ pc = "skip"
    /\ hourly_columns # None
    /\ "ghi" \in hourly_columns.val
    /\ poa_df = None

\* The table with its first column labelled 'Year'.
WithYearLabel(table) == Table(<<"Year">> \o Tail(table.columns), table.rows)

\* C12: whatever label the first column of the table carries - none
\* ('Unnamed: 0'), another text, or one of 'Year', 'year', 'Etos' - that
\* column is taken as the year column and the normalisation succeeds: the
\* result is a profile, the one of the same table headed 'Year'.
C12_EveryFirstLabelNormalizes ==
    TableLoaded =>
        /\ sunny_portal_data # None
        /\ sunny_portal_data = load_sunny_portal_data(WithYearLabel(raw))

\* C12 for the labels that line 190 does not list besides 'Year': the first
\* column is retitled and the statement of C12 holds.
C12_HoldsWhenRetitled ==
    (TableLoaded /\ raw.columns[1] \notin {"year", "Etos"}) =>
        /\ sunny_portal_data # None
        /\ sunny_portal_data = load_sunny_portal_data(WithYearLabel(raw))

\* A year row under the first label 'Etos': the label is left as it is
\* (line 190), melt finds no column 'Year' and None is returned.
C12_GreekYearLabelFails ==
    /\ TableLoaded
    /\ raw.columns[1] = "Etos"
    /\ Len(raw.rows) > 4
    /\ sunny_portal_data = None

\* The mean of month m when the values of one (year, month) key are summed
\* into one observation: the total over the number of distinct years.
SummedByKey(melted, m) ==
    LET rs == SelectSeq(melted, LAMBDA r : r.Month_Num = m)
    IN  Rat(SumSeq([i \in 1..Len(rs) |-> rs[i].Value]),
            Cardinality({rs[i].Year : i \in 1..Len(rs)}))

\* C13: rows of the table that fall on the same (year, month) are summed
\* into one observation before the mean over the years is taken, so each
\* year counts once in the mean of a month.
C13_DuplicateKeysSummed ==
    (TableLoaded /\ sunny_portal_data # None) =>
        \A m \in DOMAIN sunny_portal_data.val :
            RatEq(sunny_portal_data.val[m], SummedByKey(df_melted(raw), m))

\* What line 255 computes: every row with a year counts as an observation
\* of its own, also a second row of the same year.
C13_EachRowCountsOnce ==
    (TableLoaded /\ sunny_portal_data # None) =>
        \A m \in DOMAIN sunny_portal_data.val :
            LET rs == SelectSeq(df_melted(raw), LAMBDA r : r.Month_Num = m)
            IN  sunny_portal_data.val[m]
                    = Mean([i \in 1..Len(rs) |-> rs[i].Value])

\* Two rows of the year 2011 with January 106.70 and 53.28: the profile
\* holds their mean 79.99 for January, not their sum 159.98.
C13_DuplicateYearAveraged ==
    /\ TableLoaded
    /\ Len(raw.rows) = 6
    /\ raw.rows[1] = Cut(Row2011, raw.columns)
    /\ raw.rows[2] = Cut(Row2011Again, raw.columns)
    /\ sunny_portal_data # None
    /\ 1 \in DOMAIN sunny_portal_data.val
    /\ sunny_portal_data.val[1] = Rat(15998, 2)

\* The rows of a generated file between its repeated header line and its
\* four summary rows that start with a year of four digits.
YearRowsOf(table) ==
    SelectSeq([i \in 1..(Len(table.rows) - 5) |-> table.rows[i + 1]],
              LAMBDA r : Len(r[1]) = 4 /\ AllDigits(r[1]))

\* C14: for a file of the layout the generator script writes (title line,
\* header line of the table, year rows, four summary rows) the long-form
\* series holds the cells of the year rows and nothing else: one record
\* per year row and month column, none of the repeated header line and
\* none of the rows 'Mean value', 'Year portion', 'Yield expectations *'
\* and '19823.81', so that the mean of a month is the mean over the year
\* rows.  For the file of Chorio these are the 13 rows 2010-2022.
C14_GeneratedLayoutKeepsYearRows ==
    (TableLoaded /\ raw.columns[1] = header[1] /\ raw \in GeneratedFiles) =>
        LET year_rows == YearRowsOf(raw)
            long == df_melted(raw)
            profile == sunny_portal_data.val
        IN  /\ sunny_portal_data # None
            /\ Len(long) = Len(year_rows) * Cardinality(MonthColumns(raw))
            /\ \A i \in 1..Len(year_rows) : \A j \in MonthColumns(raw) :
                   \E k \in 1..Len(long) :
                       /\ long[k].Year = DigitsValue(year_rows[i][1])
                       /\ long[k].Month_Num
                              = month_name_to_num[raw.columns[j]]
                       /\ long[k].Value = CellNumber(year_rows[i][j])
            /\ \A j \in MonthColumns(raw) :
                   LET m == month_name_to_num[raw.columns[j]]
                   IN  IF year_rows = <<>> THEN m \notin DOMAIN profile
                       ELSE /\ m \in DOMAIN profile
                            /\ profile[m]
                                   = Mean([i \in 1..Len(year_rows) |->
                                              CellNumber(year_rows[i][j])])
            /\ raw = chorio_specific_yield_csv =>
                   /\ Len(year_rows) = 13
                   /\ {long[k].Year : k \in 1..Len(long)} = 2010..2022
                   /\ DOMAIN profile = 1..12
                   /\ \A m \in 1..12 : profile[m].den = 13

\* C14 witness: the file of Chorio is loaded; its 13 year rows give 156
\* records and the January total 993.75 over 13 rows.
C14_Witness ==
    /\ TableLoaded
    /\ raw = chorio_specific_yield_csv
    /\ sunny_portal_data # None
    /\ Len(df_melted(raw)) = 156
    /\ sunny_portal_data.val[1] = Rat(99375, 13)

=============================================================================
